---- MODULE Spec2Model ----
(***************************************************************************)
(* Model of reportcreator_api/tasks/rendering/entry.py.                    *)
(*                                                                         *)
(* SpecRender      _render_pdf_task_async / get_celery_result_async:       *)
(*                 worker invocation, timeout, cancellation.               *)
(* SpecRenderFair  the same with the fairness the event loop gives.        *)
(* SpecTask        render_pdf_task: timings and message locations.         *)
(* SpecMd          render_project_markdown_fields_to_html.                 *)
(* SpecFormat      format_template_field_object / format_template_data.    *)
(* SpecField       format_template_field on single field values.           *)
(*                                                                         *)
(* Time is counted in whole seconds.  asyncio.wait_for and the builtin     *)
(* TimeoutError are those of Python 3.11+, where asyncio.TimeoutError is   *)
(* the builtin TimeoutError.                                               *)
(***************************************************************************)
EXTENDS Integers, Sequences, FiniteSets, TLC

\* ------------------------------------------------------------------ bounds
MaxPre == 2          \* seconds that may pass before _render_pdf_task_async is called
MaxSubmit == 1       \* seconds the offloaded tasks.render_pdf_task_celery.delay may take
MaxTimeoutArg == 2   \* largest timeout (seconds) a caller passes
MaxLimit == 1        \* largest settings.PDF_RENDERING_TIME_LIMIT (seconds)
MaxCancels == 2      \* cancel() calls on the caller's task
MaxOverrun == 2      \* seconds the clock may run past the deadline

\* -------------------------------------------------------- program constants
GraceSeconds == 5    \* timedelta(seconds=settings.PDF_RENDERING_TIME_LIMIT + 5)

\* ------------------------------------------------------------------- state
VARIABLES
    pc,          \* position of the coroutine running _render_pdf_task_async
    now,         \* timezone.now(), seconds
    eager,       \* settings.CELERY_TASK_ALWAYS_EAGER
    limit,       \* settings.PDF_RENDERING_TIME_LIMIT (0: not set)
    timeoutArg,  \* the timeout argument (0: None)
    timeout,     \* the local variable timeout after line 195 (0: None)
    startTime,   \* start_time of get_celery_result_async / start of wait_for
    submitTime,  \* when the task was handed to the queue (-1: not yet)
    task,        \* state of the queued task / the inline render
    readyAt,     \* when the task became ready (-1: not yet)
    cancelReq,   \* a cancellation waits to be delivered at the next await
    cancels,     \* number of cancel() calls so far
    cancelAt,    \* position at which the first cancellation was delivered
    revokes,     \* number of task.revoke(terminate=True) calls started
    revokeErr,   \* task.revoke raised an Exception
    celeryExit,  \* how get_celery_result_async ended
    outcome,     \* how _render_pdf_task_async ended
    exitTime     \* the clock when _render_pdf_task_async ended (-1: running)

rvars == <<pc, now, eager, limit, timeoutArg, timeout, startTime, submitTime, task,
           readyAt, cancelReq, cancels, cancelAt, revokes, revokeErr, celeryExit,
           outcome, exitTime>>

\* render_pdf_task
VARIABLES
    tpc,          \* position in render_pdf_task
    resTimings,   \* res.timings
    resMessages,  \* res.messages
    beforeStart,  \* before_task_start
    beforeTotal,  \* timing_before_task_total
    taskTotal,    \* the duration add_timing('task_total') measured
    workerOut,    \* res_pdf, the RenderStageResult of _render_pdf_task_async
    texc          \* the exception render_pdf_task raised ("none": none)

tvars == <<tpc, resTimings, resMessages, beforeStart, beforeTotal, taskTotal, workerOut,
           texc>>

\* render_project_markdown_fields_to_html
VARIABLES
    mpc,              \* position in render_project_markdown_fields_to_html
    project,          \* ids of the project's sections and findings
    markdown_fields,  \* the dict markdown_fields: key -> text, later HTML
    collected,        \* res.messages as render_pdf_task returned them
    res,              \* res: the output and the messages
    rendered,         \* ids of the <markdown> blocks in the rendered HTML
    result,           \* the local `result` of format_output
    todo,             \* keys format_output has still to splice, in dict order
    failedAt,         \* the step that failed ("none": none)
    payload,          \* the dict the call returned
    mexc              \* the exception the call raised ("none": none)

mvars == <<mpc, project, markdown_fields, collected, res, rendered, result, todo,
           failedAt, payload, mexc>>

\* format_template_field_object, format_template_data
VARIABLES
    fpc,        \* "input", or the function that has been applied
    fvalue,     \* the raw value given to format_template_field(_object)
    fdef,       \* the field definition given with it
    requireId,  \* the require_id given to format_template_field_object
    fdata,      \* the arguments of format_template_data
    iterOrder,  \* the iteration order of a set of role names in this process
    fout,       \* what format_template_field_object returned
    fdataOut    \* what format_template_data returned

fvars == <<fpc, fvalue, fdef, requireId, fdata, iterOrder, fout, fdataOut>>

\* The variables of the other parts of the model.
notRender == <<tvars, mvars, fvars>>
notTask == <<rvars, mvars, fvars>>
notMd == <<rvars, tvars, fvars>>
notFormat == <<rvars, tvars, mvars>>

vars == <<rvars, tvars, mvars, fvars>>

\* ------------------------------------------------------------------ values
\* A Python value: None, a string, a dict (keys to values), a list, or the
\* exception an evaluation raised.
EmptyDict == [x \in {} |-> 0]
VNone == [k |-> "none", s |-> "", d |-> EmptyDict, l |-> <<>>]
VStr(x) == [k |-> "str", s |-> x, d |-> EmptyDict, l |-> <<>>]
VDict(f) == [k |-> "dict", s |-> "", d |-> f, l |-> <<>>]
VList(q) == [k |-> "list", s |-> "", d |-> EmptyDict, l |-> q]
VErr(x) == [k |-> "error", s |-> x, d |-> EmptyDict, l |-> <<>>]

\* The formatter is not running.
IdleFormat ==
    /\ fpc = "idle"
    /\ fvalue = VNone
    /\ fdef = VNone
    /\ requireId = FALSE
    /\ fdata = VNone
    /\ iterOrder = <<>>
    /\ fout = VNone
    /\ fdataOut = VNone

\* A task result is a serialized RenderStageResult or an exception instance.
TaskResults == {"ok", "exc_Error", "exc_TimeoutError"}

\* ------------------------------------------------- _render_pdf_task_async

\* entry.py 194-195: the caller's timeout, else the configured limit plus grace
EffectiveTimeout(arg, lim) ==
    IF arg = 0 /\ lim /= 0 THEN lim + GraceSeconds ELSE arg

\* task.ready()
TaskReady(t) == t \in TaskResults \cup {"revoked"}

\* Mutant: the deadline test is dropped from the poll loop.
PollTimedOutNever(t, start, to) == FALSE

\* Mutant: the deadline is tested whether or not there is a timeout.
PollTimedOutUnguarded(t, start, to) == t > start + to

\* entry.py 179: timeout and timezone.now() > start_time + timeout
PollTimedOut(t, start, to) == to /= 0 /\ t > start + to

\* Mutant: a ready task is not returned once the deadline has passed.
PollDeadlineFirst(t, tnow, start, to) ==
    IF PollTimedOut(tnow, start, to) THEN "TimeoutError"
    ELSE IF ~TaskReady(t) THEN "sleep"
    ELSE IF t \in {"exc_Error", "exc_TimeoutError"} THEN "raise_result"
    ELSE "return_result"

\* Mutant: the result of a ready task is returned whatever it is.
PollReturnsAnyResult(t, tnow, start, to) ==
    IF ~TaskReady(t)
    THEN IF PollTimedOut(tnow, start, to) THEN "TimeoutError" ELSE "sleep"
    ELSE "return_result"

\* entry.py 178-184: one pass of the poll loop of get_celery_result_async
PollOnce(t, tnow, start, to) ==
    IF ~TaskReady(t)
    THEN IF PollTimedOut(tnow, start, to) THEN "TimeoutError" ELSE "sleep"
    ELSE IF t \in {"exc_Error", "exc_TimeoutError"} THEN "raise_result"
    ELSE "return_result"

\* Mutant: a timeout is passed on as it is, cancellation becomes a timeout.
SurfaceSwapped(exit, t) ==
    CASE exit = "return_result" -> "RenderStageResult"
      [] exit = "CancelledError" -> "PDFRenderingTimeout"
      [] exit = "TimeoutError" -> "TimeoutError"
      [] exit = "raise_result" -> t
      [] OTHER -> exit

\* entry.py 207-213: what _render_pdf_task_async hands to its caller
Surface(exit, t) ==
    CASE exit = "return_result" -> "RenderStageResult"
      [] exit = "CancelledError" -> "CancelledError"
      [] exit = "TimeoutError" -> "PDFRenderingTimeout"
      [] exit = "raise_result" ->
            IF t = "exc_TimeoutError" THEN "PDFRenderingTimeout" ELSE t
      [] OTHER -> exit


\* ---------------------------------------------------------------- actions

\* No result of _render_pdf_task_async yet.
NoWorkerOut ==
    [pdf |-> "none", messages |-> <<>>, timings |-> <<>>,
     start |-> [kind |-> "none", t |-> 0]]

\* render_pdf_task is not running.
IdleTask ==
    /\ tpc = "idle"
    /\ resTimings = <<>>
    /\ resMessages = <<>>
    /\ beforeStart = 0
    /\ beforeTotal = 0
    /\ taskTotal = 0
    /\ workerOut = NoWorkerOut
    /\ texc = "none"

\* Nothing returned.
NoPayload == [has_result |-> FALSE, result |-> <<>>, messages |-> <<>>]

\* render_project_markdown_fields_to_html is not running.
IdleMd ==
    /\ mpc = "idle"
    /\ project = {}
    /\ markdown_fields = <<>>
    /\ collected = <<>>
    /\ res = [pdf |-> "none", messages |-> <<>>]
    /\ rendered = {}
    /\ result = <<>>
    /\ todo = <<>>
    /\ failedAt = "none"
    /\ payload = NoPayload
    /\ mexc = "none"

InitRender ==
    /\ IdleFormat
    /\ IdleTask
    /\ IdleMd
    /\ pc = "collect"
    /\ now = 0
    /\ eager \in BOOLEAN
    /\ limit \in 0..MaxLimit
    /\ timeoutArg \in 0..MaxTimeoutArg
    /\ timeout = 0
    /\ startTime = -1
    /\ submitTime = -1
    /\ task = "none"
    /\ readyAt = -1
    /\ cancelReq = FALSE
    /\ cancels = 0
    /\ cancelAt = "none"
    /\ revokes = 0
    /\ revokeErr = FALSE
    /\ celeryExit = "none"
    /\ outcome = "none"
    /\ exitTime = -1

\* The call ends: get_celery_result_async left with `exit` (or was not running),
\* _render_pdf_task_async hands `out` to its caller.
Finish(exit, out) ==
    /\ pc' = "done"
    /\ celeryExit' = exit
    /\ outcome' = out
    /\ exitTime' = now

\* How far the clock runs in each position.
Horizon ==
    CASE pc = "collect" -> MaxPre
      [] pc = "submit" -> MaxPre + MaxSubmit
      [] pc \in {"sleep", "inline", "revoke"} -> startTime + timeout + MaxOverrun
      [] pc = "done" /\ task = "pending" -> exitTime + MaxOverrun
      [] OTHER -> 0

\* Time passes.
Tick ==
    /\ UNCHANGED notRender
    /\ now < Horizon
    /\ now' = now + 1
    /\ UNCHANGED <<pc, eager, limit, timeoutArg, timeout, startTime, submitTime, task,
                   readyAt, cancelReq, cancels, cancelAt, revokes, revokeErr,
                   celeryExit, outcome, exitTime>>

\* entry.py 193-205: the timeout in effect, then the mode
RenderEnter ==
    /\ UNCHANGED notRender
    /\ pc = "collect"
    /\ timeout' = EffectiveTimeout(timeoutArg, limit)
    /\ IF eager
       THEN IF timeout' = 0
            THEN \* line 203: timeout.total_seconds() with timeout None
                 /\ Finish("none", "AttributeError")
                 /\ UNCHANGED <<startTime, submitTime, task>>
            ELSE /\ pc' = "inline"
                 /\ task' = "pending"
                 /\ startTime' = now
                 /\ submitTime' = now
                 /\ UNCHANGED <<celeryExit, outcome, exitTime>>
       ELSE /\ pc' = "submit"
            /\ UNCHANGED <<startTime, submitTime, task, celeryExit, outcome, exitTime>>
    /\ UNCHANGED <<now, eager, limit, timeoutArg, readyAt, cancelReq, cancels, cancelAt,
                   revokes, revokeErr>>

\* entry.py 205: the offloaded tasks.render_pdf_task_celery.delay queues the task
CelerySubmit ==
    /\ UNCHANGED notRender
    /\ pc = "submit"
    /\ task = "none"
    /\ task' = "pending"
    /\ submitTime' = now
    /\ UNCHANGED <<pc, now, eager, limit, timeoutArg, timeout, startTime, readyAt,
                   cancelReq, cancels, cancelAt, revokes, revokeErr, celeryExit,
                   outcome, exitTime>>

\* One pass of the loop at time `start` .. now, and what follows from it.
PollPass(start) ==
    LET r == PollOnce(task, now, start, timeout) IN
    IF r = "sleep"
    THEN /\ pc' = "sleep"
         /\ UNCHANGED <<celeryExit, outcome, exitTime>>
    ELSE Finish(r, Surface(r, task))

\* entry.py 205-206, 177-181: delay returns, the poll starts with its first pass
CeleryDelayReturn ==
    /\ UNCHANGED notRender
    /\ pc = "submit"
    /\ task /= "none"
    /\ ~cancelReq
    /\ startTime' = now
    /\ PollPass(now)
    /\ UNCHANGED <<now, eager, limit, timeoutArg, timeout, submitTime, task, readyAt,
                   cancelReq, cancels, cancelAt, revokes, revokeErr>>

\* entry.py 178-184: asyncio.sleep(0.1) returns, next pass of the loop
PollWake ==
    /\ UNCHANGED notRender
    /\ pc = "sleep"
    /\ ~cancelReq
    /\ PollPass(startTime)
    /\ UNCHANGED <<now, eager, limit, timeoutArg, timeout, startTime, submitTime, task,
                   readyAt, cancelReq, cancels, cancelAt, revokes, revokeErr>>

\* The worker (or the inline render's offloaded work) completes.  It may do so
\* after the caller has gone: the executor does not cancel running work.
WorkerComplete ==
    /\ UNCHANGED notRender
    /\ task = "pending"
    /\ \E r \in TaskResults : task' = r
    /\ readyAt' = now
    /\ UNCHANGED <<pc, now, eager, limit, timeoutArg, timeout, startTime, submitTime,
                   cancelReq, cancels, cancelAt, revokes, revokeErr, celeryExit,
                   outcome, exitTime>>

\* The caller's task is cancelled; the CancelledError is raised at the next await.
Cancel ==
    /\ UNCHANGED notRender
    /\ pc \in {"submit", "sleep", "inline", "revoke"}
    /\ ~cancelReq
    /\ cancels < MaxCancels
    /\ cancelReq' = TRUE
    /\ cancels' = cancels + 1
    /\ UNCHANGED <<pc, now, eager, limit, timeoutArg, timeout, startTime, submitTime,
                   task, readyAt, cancelAt, revokes, revokeErr, celeryExit, outcome,
                   exitTime>>

\* entry.py 205, 208-210: cancelled while awaiting delay
CancelAtSubmit ==
    /\ UNCHANGED notRender
    /\ pc = "submit"
    /\ cancelReq
    /\ cancelReq' = FALSE
    /\ cancelAt' = "submit"
    /\ Finish("none", Surface("CancelledError", task))
    /\ UNCHANGED <<now, eager, limit, timeoutArg, timeout, startTime, submitTime, task,
                   readyAt, cancels, revokes, revokeErr>>

\* entry.py 181, 185-187: cancelled in asyncio.sleep, task.revoke is started
CancelAtSleep ==
    /\ UNCHANGED notRender
    /\ pc = "sleep"
    /\ cancelReq
    /\ cancelReq' = FALSE
    /\ cancelAt' = "sleep"
    /\ pc' = "revoke"
    /\ revokes' = revokes + 1
    /\ UNCHANGED <<now, eager, limit, timeoutArg, timeout, startTime, submitTime, task,
                   readyAt, cancels, revokeErr, celeryExit, outcome, exitTime>>

\* Mutant: an error of task.revoke reaches the caller.
RevokeExitPropagates(err) == IF err THEN "RevokeError" ELSE "CancelledError"

\* entry.py 186-190: errors of task.revoke are ignored, the cancellation is re-raised
RevokeExit(err) == "CancelledError"

\* entry.py 187-190: the offloaded task.revoke(terminate=True) returns or raises
RevokeReturn ==
    /\ UNCHANGED notRender
    /\ pc = "revoke"
    /\ ~cancelReq
    /\ \E err \in BOOLEAN :
          /\ revokeErr' = err
          /\ task' = IF ~err /\ task = "pending" THEN "revoked" ELSE task
          /\ Finish(RevokeExit(err), Surface(RevokeExit(err), task))
    /\ UNCHANGED <<now, eager, limit, timeoutArg, timeout, startTime, submitTime,
                   readyAt, cancelReq, cancels, cancelAt, revokes>>

\* entry.py 187: cancelled again while awaiting task.revoke; CancelledError is
\* no Exception, so line 188 does not catch it
CancelAtRevoke ==
    /\ UNCHANGED notRender
    /\ pc = "revoke"
    /\ cancelReq
    /\ cancelReq' = FALSE
    /\ Finish("CancelledError", Surface("CancelledError", task))
    /\ UNCHANGED <<now, eager, limit, timeoutArg, timeout, startTime, submitTime, task,
                   readyAt, cancels, cancelAt, revokes, revokeErr>>

\* entry.py 203: the awaited inline render completes before wait_for gives up
InlineReturn ==
    /\ UNCHANGED notRender
    /\ pc = "inline"
    /\ ~cancelReq
    /\ TaskReady(task)
    /\ LET r == PollOnce(task, now, now, 0) IN Finish("none", Surface(r, task))
    /\ UNCHANGED <<now, eager, limit, timeoutArg, timeout, startTime, submitTime, task,
                   readyAt, cancelReq, cancels, cancelAt, revokes, revokeErr>>

\* Mutant: wait_for is given no deadline.
WaitForExpiredNever(t, start, to) == FALSE

\* entry.py 203: asyncio.wait_for(..., timeout=timeout.total_seconds()) expires
WaitForExpired(t, start, to) == t >= start + to

\* entry.py 203, 211-213: wait_for aborts the render and raises TimeoutError
InlineTimeout ==
    /\ UNCHANGED notRender
    /\ pc = "inline"
    /\ ~cancelReq
    /\ WaitForExpired(now, startTime, timeout)
    /\ Finish("none", Surface("TimeoutError", task))
    /\ UNCHANGED <<now, eager, limit, timeoutArg, timeout, startTime, submitTime, task,
                   readyAt, cancelReq, cancels, cancelAt, revokes, revokeErr>>

\* entry.py 203, 208-210: cancelled while awaiting wait_for
CancelAtInline ==
    /\ UNCHANGED notRender
    /\ pc = "inline"
    /\ cancelReq
    /\ cancelReq' = FALSE
    /\ cancelAt' = "inline"
    /\ Finish("none", Surface("CancelledError", task))
    /\ UNCHANGED <<now, eager, limit, timeoutArg, timeout, startTime, submitTime, task,
                   readyAt, cancels, revokes, revokeErr>>

NextRender ==
    \/ Tick
    \/ RenderEnter
    \/ CelerySubmit
    \/ CeleryDelayReturn
    \/ PollWake
    \/ WorkerComplete
    \/ Cancel
    \/ CancelAtSubmit
    \/ CancelAtSleep
    \/ RevokeReturn
    \/ CancelAtRevoke
    \/ InlineReturn
    \/ InlineTimeout
    \/ CancelAtInline

SpecRender == InitRender /\ [][NextRender]_vars

\* The event loop resumes a coroutine whose await has completed, offloaded calls
\* return, the clock advances.
SpecRenderFair ==
    /\ SpecRender
    /\ WF_vars(Tick)
    /\ WF_vars(PollWake)
    /\ WF_vars(InlineTimeout)


\* The render part is not running.
IdleRender ==
    /\ pc = "idle"
    /\ now = 0
    /\ eager = FALSE
    /\ limit = 0
    /\ timeoutArg = 0
    /\ timeout = 0
    /\ startTime = -1
    /\ submitTime = -1
    /\ task = "none"
    /\ readyAt = -1
    /\ cancelReq = FALSE
    /\ cancels = 0
    /\ cancelAt = "none"
    /\ revokes = 0
    /\ revokeErr = FALSE
    /\ celeryExit = "none"
    /\ outcome = "none"
    /\ exitTime = -1

\* ------------------------------------------------------------------ claims

\* The render has been handed to the worker and is awaited.
Awaiting == pc \in {"sleep", "inline"}

\* C1: with a timeout in effect, an awaited render whose worker never completes
\* (and whose caller is not cancelled) ends with TimeoutError('PDF rendering
\* timeout'); in queued mode get_celery_result_async has raised TimeoutError at a
\* time later than poll start + timeout.
C1_TimeoutNotHang ==
    (Awaiting /\ timeout > 0) ~>
        \/ readyAt /= -1
        \/ cancels > 0
        \/ /\ outcome = "PDFRenderingTimeout"
           /\ ~eager => celeryExit = "TimeoutError" /\ exitTime > startTime + timeout

C1_Witness ==
    /\ ~eager
    /\ timeout > 0
    /\ task = "pending"
    /\ cancels = 0
    /\ celeryExit = "TimeoutError"
    /\ outcome = "PDFRenderingTimeout"

\* C2: queued mode, the caller is cancelled in the poll loop: task.revoke is
\* started exactly once, and whether it raises or not the caller gets the
\* CancelledError, never a result, a timeout or the error of revoke.
C2_CancelRevokesOnceAndReraises ==
    cancelAt = "sleep" =>
        /\ revokes = 1
        /\ pc = "done" =>
              /\ celeryExit = "CancelledError"
              /\ outcome = "CancelledError"

C2_Witness ==
    /\ pc = "done"
    /\ cancelAt = "sleep"
    /\ revokeErr
    /\ cancels = 1
    /\ outcome = "CancelledError"

\* C3: inline mode, the caller is cancelled while wait_for is awaited: the caller
\* gets CancelledError (not the timeout failure), and it stays the outcome when
\* the offloaded work completes afterwards.
C3_InlineCancelPropagates ==
    cancelAt = "inline" =>
        /\ pc = "done"
        /\ outcome = "CancelledError"
        /\ outcome /= "PDFRenderingTimeout"

C3_Witness ==
    /\ eager
    /\ cancelAt = "inline"
    /\ outcome = "CancelledError"
    /\ task = "ok"
    /\ readyAt > exitTime

\* C4 (as claimed): queued mode, the poll ends in TimeoutError: task.revoke has
\* been attempted when the call ends.
C4_TimeoutRevokes ==
    (~eager /\ celeryExit = "TimeoutError") => revokes >= 1

\* C8 (as claimed): queued mode, with a timeout in effect no result is returned
\* by a poll made more than `timeout` after the task was submitted.  Polling
\* starts no earlier than submission, so a poll later than poll start + timeout
\* is later than submission + timeout as well.
C8_NoResultAfterDeadline ==
    (~eager /\ timeout > 0 /\ outcome = "RenderStageResult") =>
        /\ submitTime <= startTime
        /\ exitTime <= startTime + timeout

\* C8 (amended): queued mode.  TimeoutError is raised only with a timeout in
\* effect, by a poll made more than `timeout` after polling started (which is not
\* before submission, so time before submission does not count) that finds the
\* task not ready; a poll that finds the task ready returns its result whether
\* or not the deadline has passed.
C8_TimeoutFromPollStart ==
    /\ (~eager /\ celeryExit = "TimeoutError") =>
          /\ timeout > 0
          /\ submitTime >= 0
          /\ startTime >= submitTime
          /\ exitTime > startTime + timeout
          /\ readyAt = -1 \/ readyAt >= exitTime
    /\ (~eager /\ pc = "done" /\ task = "ok" /\ readyAt < exitTime /\ cancels = 0) =>
          outcome = "RenderStageResult"

C8_Witness ==
    /\ ~eager
    /\ timeout > 0
    /\ outcome = "RenderStageResult"
    /\ readyAt > startTime + timeout
    /\ exitTime > submitTime + timeout
    /\ submitTime > 0


\* C20: queued mode.  A poll that finds the task ready with an exception as its
\* result raises that exception: no RenderStageResult is returned, task.revoke
\* is not called, and the caller gets the exception, as the timeout failure only
\* if it is a TimeoutError itself, never as a cancellation.
C20_TaskExceptionRaised ==
    /\ (~eager /\ celeryExit = "raise_result") =>
          /\ task \in {"exc_Error", "exc_TimeoutError"}
          /\ revokes = 0
          /\ outcome /= "RenderStageResult"
          /\ outcome /= "CancelledError"
          /\ task = "exc_Error" => outcome = "exc_Error"
          /\ task = "exc_TimeoutError" => outcome = "PDFRenderingTimeout"
    /\ (~eager /\ pc = "done" /\ task \in {"exc_Error", "exc_TimeoutError"}
            /\ readyAt < exitTime /\ cancels = 0) =>
          celeryExit = "raise_result"

\* The task failed while it was polled, and its exception reached the caller.
C20_Witness ==
    /\ ~eager
    /\ pc = "done"
    /\ celeryExit = "raise_result"
    /\ task = "exc_Error"
    /\ outcome = "exc_Error"
    /\ readyAt > startTime
    /\ revokes = 0


\* C21: the timeout in effect is the caller's if one is given, else the
\* configured limit plus 5 seconds if a limit is configured, else none.  With
\* none in effect a queued render does not end in a timeout failure of the poll
\* loop: it ends with the result or exception of a task that is ready, or with
\* the cancellation of the caller.
C21_TimeoutInEffect ==
    /\ pc /= "collect" =>
          timeout = IF timeoutArg /= 0 THEN timeoutArg
                    ELSE IF limit /= 0 THEN limit + 5
                    ELSE 0
    /\ (~eager /\ timeout = 0 /\ pc = "done") =>
          /\ celeryExit /= "TimeoutError"
          /\ \/ celeryExit \in {"return_result", "raise_result"} /\ readyAt /= -1
             \/ outcome = "CancelledError" /\ cancels > 0

\* With no timeout and no limit a queued render was polled for two seconds and
\* returned the result.
C21_Witness ==
    /\ ~eager
    /\ timeoutArg = 0
    /\ limit = 0
    /\ pc = "done"
    /\ outcome = "RenderStageResult"
    /\ readyAt >= startTime + 2
    /\ cancels = 0


\* ---------------------------------------------------------- render_pdf_task
\* SpecTask: render_pdf_task from its call to its return: the timing
\* reconciliation and the default location of messages.

MaxT == 1       \* largest single timing, seconds
MaxSkew == 1    \* seconds the worker's clock may be behind the caller's
MaxMsgs == 2    \* messages in a worker result

\* dict | dict
Merge(a, b) ==
    [k \in DOMAIN a \cup DOMAIN b |-> IF k \in DOMAIN b THEN b[k] ELSE a[k]]

\* dict.pop(key) for its effect on the dict
Without(d, key) == [k \in DOMAIN d \ {key} |-> d[k]]

\* All dicts with keys among `names` and values in `vals`.
Dicts(names, vals) == UNION {[D -> vals] : D \in SUBSET names}

\* All lists over S no longer than n.
SeqsUpTo(S, n) == UNION {[1..k -> S] : k \in 0..n}

\* sum(d.values())
RECURSIVE SumValues(_)
SumValues(d) ==
    IF DOMAIN d = {} THEN 0
    ELSE LET k == CHOOSE x \in DOMAIN d : TRUE
         IN d[k] + SumValues(Without(d, k))

Max(a, b) == IF a >= b THEN a ELSE b

\* A message without location, the default location, and a more specific one.
NoLocation == [type |-> "none", id |-> "none", name |-> "none"]
ProjectTypeLocation == [type |-> "design", id |-> "project_type.id", name |-> "project_type.name"]
FindingLocation == [type |-> "finding", id |-> "f1", name |-> "F1"]

WorkerMessages ==
    [level : {"error", "warning"}, message : {"m"},
     location : {NoLocation, FindingLocation}]

\* other['task_start_time'] of a worker result: missing, a string that is no
\* datetime, or an ISO datetime (seconds on the worker's clock).
StartTimes(before) ==
    {[kind |-> "absent", t |-> 0], [kind |-> "unparsable", t |-> 0]}
    \cup {[kind |-> "time", t |-> x] : x \in (before - MaxSkew)..(before + MaxT)}

\* The results _render_pdf_task_async may return.
WorkerOuts(before) ==
    [pdf : {"none", "html"},
     messages : SeqsUpTo(WorkerMessages, MaxMsgs),
     timings : Dicts({"render", "collect_data"}, 0..MaxT),
     start : StartTimes(before)]

\* The exceptions _render_pdf_task_async may raise.
RenderFailures ==
    {Surface("TimeoutError", "pending"), Surface("CancelledError", "pending"),
     Surface("raise_result", "exc_Error"), "AttributeError"}

\* RenderStageResult.add_timing: the duration is recorded under the stage name
AddTiming(timings, name, elapsed) == Merge(timings, [k \in {name} |-> elapsed])

\* django.utils.dateparse.parse_datetime applied to other.pop('task_start_time', None):
\* None is no string (TypeError), a string that is no datetime gives None
ParseDatetime(start) ==
    CASE start.kind = "absent" -> [raises |-> TRUE, none |-> TRUE, t |-> 0]
      [] start.kind = "unparsable" -> [raises |-> FALSE, none |-> TRUE, t |-> 0]
      [] OTHER -> [raises |-> FALSE, none |-> FALSE, t |-> start.t]

\* entry.py 251-253: queue = task_start_time - before_task_start, if there is one
WithQueue(timings, parsed, before) ==
    IF parsed.none THEN timings
    ELSE [timings EXCEPT !["queue"] = parsed.t - before]

\* Mutant: the residual bucket is not clamped.
WithOtherUnclamped(timings, before_total) ==
    LET rest == Without(timings, "task_total")
    IN Merge(rest, [k \in {"other"} |->
                        timings["task_total"] + before_total - SumValues(rest)])

\* entry.py 254: other = max(0, task_total + timing_before_task_total - sum of the rest)
WithOther(timings, before_total) ==
    LET rest == Without(timings, "task_total")
    IN Merge(rest, [k \in {"other"} |->
                        Max(0, timings["task_total"] + before_total - SumValues(rest))])

\* Mutant: every message gets the default location.
StampAlways(m) == [m EXCEPT !.location = ProjectTypeLocation]

\* entry.py 258: a message without location gets the project type's
Stamp(m) == IF m.location /= NoLocation THEN m ELSE [m EXCEPT !.location = ProjectTypeLocation]

\* entry.py 257-260
StampAll(msgs) == [i \in 1..Len(msgs) |-> Stamp(msgs[i])]

InitTask ==
    /\ IdleFormat
    /\ IdleRender
    /\ IdleMd
    /\ tpc = "start"
    /\ resTimings \in Dicts({"collect_data"}, 0..MaxT)
    /\ resMessages = <<>>
    /\ beforeStart = 0
    /\ beforeTotal = 0
    /\ taskTotal = 0
    /\ workerOut = NoWorkerOut
    /\ texc = "none"

\* entry.py 223-238: resources are collected, the time so far is summed
TaskCollect ==
    /\ UNCHANGED notTask
    /\ tpc = "start"
    /\ \E c \in 0..MaxT :
          LET t == Merge(AddTiming(resTimings, "collect_data", c),
                         [k \in {"queue"} |-> 0])
          IN /\ resTimings' = t
             /\ beforeStart' = c
             /\ beforeTotal' = SumValues(t)
    /\ tpc' = "await"
    /\ UNCHANGED <<resMessages, taskTotal, workerOut, texc>>

\* entry.py 239-249: _render_pdf_task_async raises; add_timing still records
TaskRenderRaises ==
    /\ UNCHANGED notTask
    /\ tpc = "await"
    /\ \E e \in RenderFailures, total \in 0..MaxT :
          /\ texc' = e
          /\ taskTotal' = total
          /\ resTimings' = AddTiming(resTimings, "task_total", total)
    /\ tpc' = "raised"
    /\ UNCHANGED <<resMessages, beforeStart, beforeTotal, workerOut>>

\* entry.py 239-261: _render_pdf_task_async returns; merge, reconcile, stamp
TaskRenderReturns ==
    /\ UNCHANGED notTask
    /\ tpc = "await"
    /\ \E w \in WorkerOuts(beforeStart), total \in 0..MaxT :
          LET merged == Merge(AddTiming(resTimings, "task_total", total), w.timings)
              parsed == ParseDatetime(w.start)
          IN /\ workerOut' = w
             /\ taskTotal' = total
             /\ IF parsed.raises
                THEN /\ texc' = "TypeError"
                     /\ tpc' = "raised"
                     /\ resTimings' = merged
                     /\ resMessages' = resMessages \o w.messages
                ELSE /\ texc' = "none"
                     /\ tpc' = "returned"
                     /\ resTimings' = WithOther(WithQueue(merged, parsed, beforeStart),
                                                beforeTotal)
                     /\ resMessages' = StampAll(resMessages \o w.messages)
    /\ UNCHANGED <<beforeStart, beforeTotal>>

NextTask ==
    \/ TaskCollect
    \/ TaskRenderRaises
    \/ TaskRenderReturns

SpecTask == InitTask /\ [][NextTask]_vars

\* The worker result has been obtained by render_pdf_task.
ResultObtained == tpc \in {"returned", "raised"} /\ workerOut.start.kind /= "none"

\* C7: in the result render_pdf_task returns there is one message per worker
\* message, in the worker's order; a message that had a location is unchanged,
\* one that had none differs from the worker's only by carrying the project
\* type's location; so every returned message has a location.
C7_DefaultLocation ==
    tpc = "returned" =>
        /\ Len(resMessages) = Len(workerOut.messages)
        /\ \A i \in 1..Len(resMessages) :
              LET m == workerOut.messages[i]
                  r == resMessages[i]
              IN /\ r.location /= NoLocation
                 /\ r.level = m.level
                 /\ r.message = m.message
                 /\ m.location /= NoLocation => r.location = m.location
                 /\ m.location = NoLocation => r.location = ProjectTypeLocation

C7_Witness ==
    /\ tpc = "returned"
    /\ Len(resMessages) = 2
    /\ workerOut.messages[1].location = NoLocation
    /\ workerOut.messages[2].location = FindingLocation
    /\ resMessages[1].location = ProjectTypeLocation
    /\ resMessages[2].location = FindingLocation
    /\ resMessages[1].level /= resMessages[2].level

\* The timings other than 'other' that render_pdf_task holds at the end.
RecordedRest == Without(resTimings, "other")

\* C9 (as claimed): once the worker result is obtained render_pdf_task returns
\* timings with queue = worker start - before_task_start, or 0 when the worker
\* reports no start time, other = max(0, task_total + time recorded before the
\* call - sum of the other timings), other >= 0, and no 'task_total'.
C9_TimingsReconciled ==
    ResultObtained =>
        /\ tpc = "returned"
        /\ "task_total" \notin DOMAIN resTimings
        /\ {"queue", "other"} \subseteq DOMAIN resTimings
        /\ resTimings["queue"] =
              IF workerOut.start.kind = "time" THEN workerOut.start.t - beforeStart ELSE 0
        /\ resTimings["other"] >= 0
        /\ resTimings["other"] =
              Max(0, taskTotal + beforeTotal - SumValues(RecordedRest))


\* The latency observed: the time recorded before the submission plus the
\* measured task_total.
ObservedTotal == beforeTotal + taskTotal

\* C19: the timings render_pdf_task returns sum to the observed latency
\* whenever task_total + time before - sum of the other timings is not
\* negative; when it is negative, 'other' is 0 and the timings sum to more.
C19_TimingsSumToTotal ==
    tpc = "returned" =>
        LET residual == ObservedTotal - SumValues(RecordedRest)
        IN /\ residual >= 0 =>
                 /\ resTimings["other"] = residual
                 /\ SumValues(resTimings) = ObservedTotal
           /\ residual < 0 =>
                 /\ resTimings["other"] = 0
                 /\ SumValues(resTimings) > ObservedTotal

\* The clamp applied: the worker's timings exceed what was measured around it.
C19_Witness ==
    /\ tpc = "returned"
    /\ ObservedTotal - SumValues(RecordedRest) < 0
    /\ resTimings["other"] = 0
    /\ "render" \in DOMAIN resTimings
    /\ SumValues(resTimings) > ObservedTotal


\* ------------------------------------ render_project_markdown_fields_to_html
\* SpecMd: the markdown fields are collected, rendered by render_pdf_task,
\* and format_output splices the fragments into the serialized project.

\* The sections and findings a project may have: <<kind, id>>.
Items == {<<"sections", "s1">>, <<"findings", "f1">>}

\* entry.py 276, 280: the path of the markdown field of an item
MarkdownPath(item) == <<item[1], item[2], "description">>

\* The path of a field of an item that is no markdown field.
PlainPath(item) == <<item[1], item[2], "title">>

\* The item a path belongs to: path[0], path[1].
ItemOf(path) == <<path[1], path[2]>>

\* The text of the field at `path`, and the HTML the worker renders for block `id`.
Text(path) == [fmt |-> "text", of |-> path]
Html(id) == [fmt |-> "html", of |-> <<id>>]

\* json.dumps of a string: in quotes, a quote or backslash in it escaped
RECURSIVE JsonString(_)
JsonString(str) ==
    IF str = "" THEN ""
    ELSE LET c == SubSeq(str, 1, 1)
         IN (IF c = "\"" \/ c = "\\" THEN "\\" \o c ELSE c) \o JsonString(Tail(str))

\* json.dumps(path): a JSON array of the segments, separated by ', '
RECURSIVE JsonItems(_)
JsonItems(path) ==
    IF path = <<>> THEN ""
    ELSE "\"" \o JsonString(Head(path)) \o "\""
         \o (IF Len(path) > 1 THEN ", " ELSE "") \o JsonItems(Tail(path))

json_dumps(path) == "[" \o JsonItems(path) \o "]"

\* json.loads of an array of strings, read character by character: `acc` holds
\* the strings read, `cur` the string being read if `inString`
RECURSIVE JsonScan(_, _, _, _, _)
JsonScan(str, i, inString, cur, acc) ==
    IF i > Len(str) THEN acc
    ELSE LET c == SubSeq(str, i, i)
         IN IF inString
            THEN CASE c = "\\" ->
                        JsonScan(str, i + 2, TRUE, cur \o SubSeq(str, i + 1, i + 1), acc)
                   [] c = "\"" -> JsonScan(str, i + 1, FALSE, "", Append(acc, cur))
                   [] OTHER -> JsonScan(str, i + 1, TRUE, cur \o c, acc)
            ELSE IF c = "\"" THEN JsonScan(str, i + 1, TRUE, "", acc)
                 ELSE JsonScan(str, i + 1, FALSE, cur, acc)

json_loads(str) == JsonScan(str, 1, FALSE, "", <<>>)

\* entry.py 274-282: the paths in the order they are met, sections first, then
\* findings
CollectPaths(items) ==
    LET secs == {i \in items : i[1] = "sections"}
        finds == {i \in items : i[1] = "findings"}
        S(set) == IF set = {} THEN <<>> ELSE <<MarkdownPath(CHOOSE i \in set : TRUE)>>
    IN S(secs) \o S(finds)

\* entry.py 277, 281: markdown_fields[json.dumps(path)] = value, path by path;
\* a later path with the same key replaces the value
RECURSIVE CollectInto(_, _)
CollectInto(paths, fields) ==
    IF paths = <<>> THEN fields
    ELSE LET key == json_dumps(Head(paths))
         IN CollectInto(Tail(paths),
                        [k \in DOMAIN fields \cup {key} |->
                            IF k = key THEN Text(Head(paths)) ELSE fields[k]])

CollectMarkdown(items) == CollectInto(CollectPaths(items), EmptyDict)

\* markdown_fields.items(): the keys in the order they were first set
RECURSIVE KeysInOrder(_, _)
KeysInOrder(paths, seen) ==
    IF paths = <<>> THEN <<>>
    ELSE LET key == json_dumps(Head(paths))
         IN (IF key \in seen THEN <<>> ELSE <<key>>)
            \o KeysInOrder(Tail(paths), seen \cup {key})

CollectOrder(items) == KeysInOrder(CollectPaths(items), {})

\* Mutant: a rendered block sets the entry of its id whether or not the id is
\* a collected key.
ApplyRenderedAnyId(fields, ids) ==
    [k \in DOMAIN fields \cup ids |-> IF k \in ids THEN Html(k) ELSE fields[k]]

\* entry.py 304-307: the HTML of each rendered block whose id is a key of
\* markdown_fields replaces the entry of that key
ApplyRendered(fields, ids) ==
    [k \in DOMAIN fields |-> IF k \in ids THEN Html(k) ELSE fields[k]]

\* Mutant: the fragment is written to every field of the item.
SpliceWholeItem(tree, path, html) ==
    [q \in DOMAIN tree |->
        IF q[1] = path[1] /\ q[2] = path[2] THEN html ELSE tree[q]]

\* entry.py 313-318: in the section or finding with the id path[1], the value at
\* path[2:] is set; a path of another kind is passed over
Splice(tree, path, html) ==
    IF path[1] \in {"sections", "findings"}
    THEN [tree EXCEPT ![path] = html]
    ELSE tree

\* PentestProjectDetailSerializer(...).data: the fields of the items it holds
Serialize(items) ==
    [p \in {MarkdownPath(i) : i \in items} \cup {PlainPath(i) : i \in items} |-> Text(p)]

\* RenderStageResult.to_dict(): output and messages, no 'result'
ToDict(r) == [has_result |-> FALSE, result |-> <<>>, messages |-> r.messages]

\* entry.py 329-332
ErrorWhileFormatting ==
    [level |-> "error", message |-> "Error while formatting output", location |-> NoLocation]

\* Mutant: the failure handler hands out what format_output had spliced so far.
FailurePayloadPartial(r, partial) ==
    [has_result |-> TRUE, result |-> partial,
     messages |-> Append(r.messages, ErrorWhileFormatting)]

\* entry.py 327-333: the error message is appended, res.to_dict() returned
FailurePayload(r, partial) ==
    ToDict([r EXCEPT !.messages = Append(r.messages, ErrorWhileFormatting)])

\* entry.py 320-323
SuccessPayload(r, spliced) ==
    [has_result |-> TRUE, result |-> spliced, messages |-> ToDict(r).messages]

\* The messages render_pdf_task may return: each has a location.
ReturnedMessages == {Stamp(m) : m \in WorkerMessages}

InitMd ==
    /\ IdleFormat
    /\ IdleRender
    /\ IdleTask
    /\ mpc = "start"
    /\ project \in SUBSET Items
    /\ markdown_fields = <<>>
    /\ collected = <<>>
    /\ res = [pdf |-> "none", messages |-> <<>>]
    /\ rendered = {}
    /\ result = <<>>
    /\ todo = <<>>
    /\ failedAt = "none"
    /\ payload = NoPayload
    /\ mexc = "none"

\* entry.py 273-287
MdCollect ==
    /\ UNCHANGED notMd
    /\ mpc = "start"
    /\ markdown_fields' = CollectMarkdown(project)
    /\ mpc' = "rendering"
    /\ UNCHANGED <<project, collected, res, rendered, result, todo, failedAt, payload, mexc>>

\* entry.py 288-294: render_pdf_task raises; nothing here catches it
MdRenderRaises ==
    /\ UNCHANGED notMd
    /\ mpc = "rendering"
    /\ \E e \in RenderFailures \cup {"TypeError"} : mexc' = e
    /\ failedAt' = "render"
    /\ mpc' = "raised"
    /\ UNCHANGED <<project, markdown_fields, collected, res, rendered, result, todo, payload>>

\* entry.py 288-296: render_pdf_task returns; without output the messages are returned
MdRenderReturns ==
    /\ UNCHANGED notMd
    /\ mpc = "rendering"
    /\ \E out \in {"none", "html", "malformed"},
          msgs \in SeqsUpTo(ReturnedMessages, MaxMsgs),
          ids \in SUBSET (DOMAIN markdown_fields \cup {"unknown"}) :
          /\ res' = [pdf |-> out, messages |-> msgs]
          /\ collected' = msgs
          /\ rendered' = IF out = "html" THEN ids ELSE {}
          /\ IF out = "none"
             THEN /\ payload' = ToDict(res')
                  /\ mpc' = "returned"
             ELSE /\ payload' = payload
                  /\ mpc' = "formatting"
    /\ UNCHANGED <<project, markdown_fields, result, todo, failedAt, mexc>>

\* entry.py 301-310: the HTML is parsed, the rendered blocks replace the texts of
\* the keys they name, the project is serialized (it may have changed since)
MdParse ==
    /\ UNCHANGED notMd
    /\ mpc = "formatting"
    /\ IF res.pdf = "malformed"
       THEN /\ failedAt' = "parse"
            /\ res' = [res EXCEPT !.messages = Append(@, ErrorWhileFormatting)]
            /\ payload' = FailurePayload(res, result)
            /\ mpc' = "returned"
            /\ UNCHANGED <<markdown_fields, result, todo>>
       ELSE /\ markdown_fields' = ApplyRendered(markdown_fields, rendered)
            /\ \E items \in SUBSET project : result' = Serialize(items)
            /\ todo' = CollectOrder(project)
            /\ mpc' = "splicing"
            /\ UNCHANGED <<failedAt, res, payload>>
    /\ UNCHANGED <<project, collected, rendered, mexc>>

\* entry.py 311-323, 325-333: the next field is spliced, or its item is not found;
\* after the last one the result is returned
MdSplice ==
    /\ UNCHANGED notMd
    /\ mpc = "splicing"
    /\ IF todo = <<>>
       THEN /\ payload' = SuccessPayload(res, result)
            /\ mpc' = "returned"
            /\ UNCHANGED <<res, result, todo, failedAt>>
       ELSE LET path == json_loads(Head(todo)) IN
            IF path \in DOMAIN result
            THEN /\ result' = Splice(result, path, markdown_fields[Head(todo)])
                 /\ todo' = Tail(todo)
                 /\ UNCHANGED <<res, failedAt, payload, mpc>>
            ELSE /\ failedAt' = "splice"
                 /\ res' = [res EXCEPT !.messages = Append(@, ErrorWhileFormatting)]
                 /\ payload' = FailurePayload(res, result)
                 /\ mpc' = "returned"
                 /\ UNCHANGED <<result, todo>>
    /\ UNCHANGED <<project, markdown_fields, collected, rendered, mexc>>

NextMd ==
    \/ MdCollect
    \/ MdRenderRaises
    \/ MdRenderReturns
    \/ MdParse
    \/ MdSplice

SpecMd == InitMd /\ [][NextMd]_vars

\* The call has ended.
MdEnded == mpc \in {"returned", "raised"}

\* C5 (as claimed): a failure in step 3 (the render), 4 (parsing) or 5 (splicing)
\* does not leave the call as an exception: the call returns the collected
\* messages followed by one error-level message, without 'result'.  (A
\* cancellation of the caller is not taken for a failure.)
C5_FailuresCaught ==
    (MdEnded /\ failedAt /= "none" /\ mexc /= "CancelledError") =>
        /\ mexc = "none"
        /\ mpc = "returned"
        /\ ~payload.has_result
        /\ payload.messages = Append(collected, ErrorWhileFormatting)

\* C6: a returned payload has a 'result' only if the worker produced output,
\* nothing failed and every collected markdown field has been spliced; without
\* worker output it is the collected messages and no 'result'; after a failure
\* of format_output it is the collected messages in their order followed by a
\* single error-level message, and no 'result'.
C6_NoPartialResult ==
    mpc = "returned" =>
        /\ payload.has_result =>
              /\ res.pdf = "html"
              /\ failedAt = "none"
              /\ todo = <<>>
              /\ payload.messages = collected
              /\ \A i \in project :
                    /\ MarkdownPath(i) \in DOMAIN payload.result
                    /\ payload.result[MarkdownPath(i)]
                           = markdown_fields[json_dumps(MarkdownPath(i))]
        /\ res.pdf = "none" =>
              /\ ~payload.has_result
              /\ payload.result = <<>>
              /\ payload.messages = collected
        /\ failedAt /= "none" =>
              /\ ~payload.has_result
              /\ payload.result = <<>>
              /\ Len(payload.messages) = Len(collected) + 1
              /\ SubSeq(payload.messages, 1, Len(collected)) = collected
              /\ payload.messages[Len(payload.messages)].level = "error"

\* format_output failed after it had spliced a field.
C6_Witness ==
    /\ mpc = "returned"
    /\ failedAt = "splice"
    /\ ~payload.has_result
    /\ Len(collected) = 2
    /\ \E path \in DOMAIN result : result[path].fmt = "html"


\* C16: in the result of a call that succeeds, the serialized project has the
\* values of the plain serialization everywhere but at the collected markdown
\* paths; at such a path it has the fragment rendered for the key of that very
\* path, if one was rendered.
C16_OnlyMarkdownSpliced ==
    (mpc = "returned" /\ payload.has_result) =>
        /\ DOMAIN payload.result = DOMAIN Serialize(project)
        /\ \A i \in project :
              /\ payload.result[PlainPath(i)] = Serialize(project)[PlainPath(i)]
              /\ payload.result[MarkdownPath(i)] =
                    IF json_dumps(MarkdownPath(i)) \in rendered
                    THEN Html(json_dumps(MarkdownPath(i)))
                    ELSE Serialize(project)[MarkdownPath(i)]

\* The fragment of the section's field was spliced, in a project with a finding
\* for whose field none was rendered.
C16_Witness ==
    /\ mpc = "returned"
    /\ payload.has_result
    /\ project = Items
    /\ rendered = {json_dumps(<<"sections", "s1", "description">>)}
    /\ payload.result[<<"sections", "s1", "description">>].fmt = "html"
    /\ payload.result[<<"findings", "f1", "description">>].fmt = "text"

\* C17: the key of a markdown field decodes to the path it was made from, the
\* collected paths have as many keys as there are paths, each key holds the
\* text of its own path, and a rendered block replaces the entry of a collected
\* key only: the mapping never gets another key.
C17_PathKeyJoin ==
    mpc /= "start" =>
        LET paths == {MarkdownPath(i) : i \in project}
            keys == DOMAIN markdown_fields
        IN /\ \A path \in paths :
                 /\ json_dumps(path) \in keys
                 /\ json_loads(json_dumps(path)) = path
           /\ Cardinality(keys) = Cardinality(paths)
           /\ \A k \in keys :
                 /\ json_loads(k) \in paths
                 /\ \/ markdown_fields[k] = Text(json_loads(k))
                    \/ /\ mpc \in {"splicing", "returned"}
                       /\ k \in rendered
                       /\ markdown_fields[k] = Html(k)

\* Blocks were rendered for a collected key and for an id that is no key.
C17_Witness ==
    /\ mpc = "splicing"
    /\ project = Items
    /\ rendered = {json_dumps(<<"findings", "f1", "description">>), "unknown"}
    /\ markdown_fields[json_dumps(<<"findings", "f1", "description">>)].fmt = "html"
    /\ markdown_fields[json_dumps(<<"sections", "s1", "description">>)].fmt = "text"


\* ------------------------------------------------- field value formatting
\* SpecFormat: format_template_field_object and format_template_data applied
\* to raw values.

MaxFindings == 2   \* findings in the data given to format_template_data
MaxMembers == 2    \* members in data['pentesters']

\* Field definitions: id, type, default, and by type the fields of an object,
\* the item definition of a list, the choices of an enum.
Field(id, type, default, fields, items, choices) ==
    [id |-> id, type |-> type, default |-> default, fields |-> fields,
     items |-> items, choices |-> choices]
FString(id, default) == Field(id, "string", default, <<>>, <<>>, <<>>)
FEnum(id, choices) == Field(id, "enum", VNone, <<>>, <<>>, choices)
FCwe(id) == Field(id, "cwe", VNone, <<>>, <<>>, <<>>)
FUser(id) == Field(id, "user", VNone, <<>>, <<>>, <<>>)
FList(id, item) == Field(id, "list", VNone, <<>>, <<item>>, <<>>)
FObject(id, fields) == Field(id, "object", VNone, fields, <<>>, <<>>)

SeverityChoices ==
    <<[value |-> "low", label |-> "Low"], [value |-> "high", label |-> "High"]>>

\* project_type.finding_fields_obj
FindingFields ==
    FObject("finding",
            <<FString("title", VStr("TODO")),
              FEnum("severity", SeverityChoices),
              FObject("affected",
                      <<FString("host", VNone),
                        FList("ports", FString("port", VNone))>>)>>)

\* project_type.all_report_fields_obj
ReportFields ==
    FObject("report",
            <<FString("title", VStr("Report")),
              FUser("author"),
              FCwe("cwe")>>)

\* CweField.cwe_definitions()
CweDefinitions ==
    {[id |-> "79", name |-> "Cross-site Scripting"]}

\* The ids PentestUser.objects.get finds.
UserStore == {"u2"}

\* The strings that are UUIDs; any other id is malformed.
WellFormedIds == {"u1", "u2", "u9", "i1", "nobody"}

\* entry.py 84: PentestUser.objects.get(id=value) finds the user or raises
StoreGet(id) ==
    CASE id \in UserStore -> "found"
      [] id \in WellFormedIds -> "DoesNotExist"
      [] OTHER -> "ValidationError"

\* Mutant: only a user that does not exist is handled, a malformed id is not.
StoreMissNotFoundOnly(exc) == exc = "DoesNotExist"

\* entry.py 85-86: except (PentestUser.DoesNotExist, ValidationError)
StoreMissHandled(exc) == exc \in {"DoesNotExist", "ValidationError"}

\* The keys format_user copies.
ContactKeys ==
    {"id", "name", "title_before", "first_name", "middle_name", "last_name",
     "title_after", "email", "phone", "mobile"}

\* The id str(uuid.uuid4()) gives.
FreshId == VStr("uuid4")

Range(q) == {q[i] : i \in DOMAIN q}

\* dict.get(key), of a value that may be no dict
Get(v, key) == IF v.k = "dict" /\ key \in DOMAIN v.d THEN v.d[key] ELSE VNone

\* bool(value)
Truthy(v) ==
    CASE v.k = "none" -> FALSE
      [] v.k = "str" -> v.s /= ""
      [] v.k = "dict" -> DOMAIN v.d /= {}
      [] v.k = "list" -> v.l /= <<>>
      [] OTHER -> TRUE

\* ensure_defined_structure with the fill-default policy: the declared keys, each
\* with the raw value, or the default if there is none; objects and lists by
\* their own definitions
RECURSIVE EnsureField(_, _)
EnsureField(v, def) ==
    CASE def.type = "object" ->
            VDict([key \in {def.fields[i].id : i \in DOMAIN def.fields} |->
                     LET f == CHOOSE g \in Range(def.fields) : g.id = key
                     IN EnsureField(Get(v, key), f)])
      [] def.type = "list" ->
            IF v.k = "list"
            THEN VList([i \in DOMAIN v.l |-> EnsureField(v.l[i], def.items[1])])
            ELSE VList(<<>>)
      [] OTHER -> IF v.k = "none" THEN def.default ELSE v

ensure_defined_structure(v, def) == EnsureField(v, def)

\* entry.py 75-76: the priority of a role
RolePriority(r) ==
    CASE r = "lead" -> 0
      [] r = "pentester" -> 1
      [] r = "reviewer" -> 2
      [] OTHER -> 10

\* The position of x in the sequence q (0: not in it).
IndexOf(q, x) == IF x \in Range(q) THEN CHOOSE i \in DOMAIN q : q[i] = x ELSE 0

\* entry.py 75-76: sorted(set of roles, key=priority): by priority, roles of equal
\* priority in the iteration order of the set
RECURSIVE SortedRoles(_, _)
SortedRoles(set, order) ==
    IF set = {} THEN <<>>
    ELSE LET first == CHOOSE x \in set : \A y \in set \ {x} :
                         \/ RolePriority(x) < RolePriority(y)
                         \/ /\ RolePriority(x) = RolePriority(y)
                            /\ IndexOf(order, x) < IndexOf(order, y)
         IN <<first>> \o SortedRoles(set \ {first}, order)

\* copy_keys: the listed keys that the dict has
CopyKeys(d, keys) == [key \in DOMAIN d \cap keys |-> d[key]]

\* entry.py 69-76: format_user
format_user(u) ==
    IF ~Truthy(u) THEN VNone
    ELSE LET roles == Get(u, "roles").l
             names == {roles[i].s : i \in {j \in DOMAIN roles : Truthy(roles[j])}}
             sorted == SortedRoles(names, iterOrder)
         IN VDict(Merge(CopyKeys(u.d, ContactKeys),
                        [key \in {"roles"} |->
                            VList([i \in DOMAIN sorted |-> VStr(sorted[i])])]))

\* str(get_key_or_attr(i, 'id'))
IdString(m) == IF Get(m, "id").k = "str" THEN Get(m, "id").s ELSE "None"

\* entry.py 78-88: format_template_field_user
format_template_field_user(value, members) ==
    LET hits == {i \in DOMAIN members : IdString(members[i]) = value.s}
        hit == members[CHOOSE i \in hits : \A j \in hits : i <= j]
    IN CASE value.k \in {"dict", "none"} -> format_user(value)
         [] value.k = "str" /\ hits /= {} /\ Truthy(hit) -> format_user(hit)
         [] value.k = "str" ->
               IF StoreGet(value.s) = "found"
               THEN format_user(VDict([key \in {"id", "roles"} |->
                                          IF key = "id" THEN value ELSE VList(<<>>)]))
               ELSE IF StoreMissHandled(StoreGet(value.s)) THEN VNone
               ELSE VErr(StoreGet(value.s))
         [] OTHER -> VNone

RECURSIVE format_template_field(_, _, _)
RECURSIVE format_template_field_object(_, _, _, _)
RECURSIVE format_template_field_list(_, _, _)
RECURSIVE FormatListSkipsEmpty(_, _, _)

\* Mutant: empty elements are skipped.
FormatListSkipsEmpty(value, def, members) ==
    IF value.k /= "list" THEN VErr("TypeError")
    ELSE LET NotEmpty(e) == Truthy(e)
             kept == SelectSeq(value.l, NotEmpty)
             items == [i \in DOMAIN kept |->
                          format_template_field(kept[i], def.items[1], members)]
         IN IF \E i \in DOMAIN items : items[i].k = "error"
            THEN VErr("TypeError")
            ELSE VList(items)

\* entry.py 113-114: the list comprehension over the elements
format_template_field_list(value, def, members) ==
    IF value.k /= "list" THEN VErr("TypeError")
    ELSE LET items == [i \in DOMAIN value.l |->
                          format_template_field(value.l[i], def.items[1], members)]
         IN IF \E i \in DOMAIN items : items[i].k = "error"
            THEN VErr("TypeError")
            ELSE VList(items)

\* Mutant: only the keys the raw value has are formatted; nothing is filled in.
FormatObjectPresentKeys(value, def, members, require_id) ==
    IF value.k /= "dict" THEN VErr("TypeError")
    ELSE LET ids == {def.fields[i].id : i \in DOMAIN def.fields} \cap DOMAIN value.d
             out == [key \in DOMAIN value.d |->
                       IF key \in ids
                       THEN format_template_field(
                                value.d[key],
                                CHOOSE g \in Range(def.fields) : g.id = key, members)
                       ELSE value.d[key]]
         IN IF \E key \in ids : out[key].k = "error" THEN VErr("TypeError")
            ELSE VDict(out)

\* Mutant: the output is built from the declared fields alone.
FormatObjectDeclaredOnly(value, def, members, require_id) ==
    IF value.k /= "dict" THEN VErr("TypeError")
    ELSE LET ids == {def.fields[i].id : i \in DOMAIN def.fields}
             merged == ensure_defined_structure(value, def).d
             out == [key \in ids |->
                       format_template_field(
                           Get(VDict(merged), key),
                           CHOOSE g \in Range(def.fields) : g.id = key, members)]
         IN IF \E key \in ids : out[key].k = "error" THEN VErr("TypeError")
            ELSE IF require_id /\ "id" \notin DOMAIN out
                 THEN VDict(Merge(out, [key \in {"id"} |-> FreshId]))
                 ELSE VDict(out)

\* entry.py 59-61: `value | ...` builds a new dict, and the assignments that
\* follow write to that dict; the raw mapping is what it was
RawAfterObject(value, out) == value

\* Mutant: with require_id a new id is set whether or not there is one.
FormatObjectAlwaysNewId(value, def, members, require_id) ==
    IF value.k /= "dict" THEN VErr("TypeError")
    ELSE LET ids == {def.fields[i].id : i \in DOMAIN def.fields}
             merged == Merge(value.d, ensure_defined_structure(value, def).d)
             out == [key \in DOMAIN merged \cup ids |->
                       IF key \in ids
                       THEN format_template_field(
                                Get(VDict(merged), key),
                                CHOOSE g \in Range(def.fields) : g.id = key, members)
                       ELSE merged[key]]
         IN IF \E key \in ids : out[key].k = "error" THEN VErr("TypeError")
            ELSE IF require_id
                 THEN VDict(Merge(out, [key \in {"id"} |-> FreshId]))
                 ELSE VDict(out)

\* entry.py 58-65
format_template_field_object(value, def, members, require_id) ==
    IF value.k /= "dict" THEN VErr("TypeError")
    ELSE LET ids == {def.fields[i].id : i \in DOMAIN def.fields}
             merged == Merge(value.d, ensure_defined_structure(value, def).d)
             out == [key \in DOMAIN merged \cup ids |->
                       IF key \in ids
                       THEN format_template_field(
                                Get(VDict(merged), key),
                                CHOOSE g \in Range(def.fields) : g.id = key, members)
                       ELSE merged[key]]
         IN IF \E key \in ids : out[key].k = "error" THEN VErr("TypeError")
            ELSE IF require_id /\ "id" \notin DOMAIN out
                 THEN VDict(Merge(out, [key \in {"id"} |-> FreshId]))
                 ELSE VDict(out)

\* entry.py 91-118 (CVSS fields, which an external engine computes, are left out)
format_template_field(value, def, members) ==
    CASE def.type = "enum" ->
            LET hits == {i \in DOMAIN def.choices :
                            value.k = "str" /\ def.choices[i].value = value.s}
            IN IF hits = {}
               THEN VDict([key \in {"value", "label"} |-> VStr("")])
               ELSE LET c == def.choices[CHOOSE i \in hits : \A j \in hits : i <= j]
                    IN VDict([key \in {"value", "label"} |->
                                 IF key = "value" THEN VStr(c.value) ELSE VStr(c.label)])
      [] def.type = "cwe" ->
            LET hits == {c \in CweDefinitions : value.k = "str" /\ value.s = "CWE-" \o c.id}
                base == [key \in {"id", "name", "description", "value"} |->
                            IF key = "value" THEN value ELSE VNone]
            IN IF hits = {} THEN VDict(base)
               ELSE LET c == CHOOSE x \in hits : TRUE
                    IN VDict(Merge(base, [key \in {"id", "name"} |->
                                             IF key = "id" THEN VStr(c.id) ELSE VStr(c.name)]))
      [] def.type = "user" -> format_template_field_user(value, members)
      [] def.type = "list" -> format_template_field_list(value, def, members)
      [] def.type = "object" -> format_template_field_object(value, def, members, FALSE)
      [] OTHER -> value


\* sort_findings: the input order if override_finding_order, else the order of
\* the project type, here the permutation perm
sort_findings(findings, override, perm) ==
    IF override THEN findings ELSE [i \in DOMAIN findings |-> findings[perm[i]]]

\* entry.py 145-146: the sort key of a member; no formatted member has a
\* 'username', so the second component is None for all of them
MemberPriority(u) ==
    LET roles == {Get(u, "roles").l[i].s : i \in DOMAIN Get(u, "roles").l}
    IN CASE "lead" \in roles -> 0
         [] "pentester" \in roles -> 1
         [] "reviewer" \in roles -> 2
         [] OTHER -> 10

\* sorted(list, key): by key, equal keys in list order
RECURSIVE SortedIndices(_, _)
SortedIndices(q, left) ==
    IF left = {} THEN <<>>
    ELSE LET first == CHOOSE i \in left : \A j \in left \ {i} :
                         \/ MemberPriority(q[i]) < MemberPriority(q[j])
                         \/ MemberPriority(q[i]) = MemberPriority(q[j]) /\ i < j
         IN <<first>> \o SortedIndices(q, left \ {first})

\* entry.py 143-147
SortMembers(members) ==
    LET idx == SortedIndices(members, DOMAIN members)
    IN [i \in DOMAIN idx |-> members[idx[i]]]

\* entry.py 121-148
format_template_data(data, perm) ==
    LET pool == data.pentesters \o data.imported
        members == [i \in DOMAIN pool |->
                       format_template_field_user(pool[i], data.imported)]
        report == format_template_field_object(
                      ensure_defined_structure(data.report, ReportFields),
                      ReportFields, members, TRUE)
        findings == [i \in DOMAIN data.findings |->
                        LET f == data.findings[i]
                        IN format_template_field_object(
                               VDict(Merge(IF f.k = "dict" THEN f.d ELSE EmptyDict,
                                           ensure_defined_structure(f, FindingFields).d)),
                               FindingFields, members, TRUE)]
    IN IF \/ report.k = "error"
          \/ \E i \in DOMAIN findings : findings[i].k = "error"
       THEN VErr("TypeError")
       ELSE IF \E i \in DOMAIN members : members[i].k /= "dict"
       THEN VErr("AttributeError")
       ELSE VDict([key \in {"report", "findings", "pentesters"} |->
                     CASE key = "report" -> report
                       [] key = "findings" ->
                             VList(sort_findings(findings, data.override, perm))
                       [] OTHER -> VList(SortMembers(members))])

\* All dicts that give some of the keys of `choice` one of the key's values.
PartialDicts(choice) ==
    UNION {{d \in [D -> UNION {choice[key] : key \in D}] :
               \A key \in D : d[key] \in choice[key]} : D \in SUBSET DOMAIN choice}

\* Raw values of the object field 'affected'.
RawAffected ==
    {VNone} \cup
    {VDict(d) : d \in PartialDicts([host |-> {VStr("h")},
                                    ports |-> {VList(<<>>), VList(<<VStr("80")>>)}])}

\* Raw findings: any of the declared keys may be missing or None; 'id' is a key
\* the definition does not declare.
RawFindings ==
    {VDict(d) : d \in PartialDicts([title |-> {VStr("t"), VNone},
                                    severity |-> {VStr("low"), VStr("bogus")},
                                    affected |-> RawAffected,
                                    id |-> {VStr("f1")},
                                    order |-> {VStr("3")}])}

RawReports ==
    {VDict(d) : d \in PartialDicts([title |-> {VStr("r")},
                                    author |-> {VStr("u1"), VStr("u2"), VStr("nobody")},
                                    cwe |-> {VStr("CWE-79"), VStr("CWE-1")},
                                    id |-> {VStr("p1")}])}

\* A few raw findings for lists of findings.
SomeFindings ==
    {VDict(EmptyDict),
     VDict([key \in {"id", "title", "order"} |->
              CASE key = "id" -> VStr("f1")
                [] key = "title" -> VStr("t")
                [] OTHER -> VStr("3")]),
     VDict([key \in {"affected"} |-> VNone])}

\* A member of the project, and an imported member.
Member1 ==
    VDict([key \in {"id", "name", "username", "roles"} |->
             CASE key = "id" -> VStr("u1")
               [] key = "name" -> VStr("Ann")
               [] key = "username" -> VStr("ann")
               [] OTHER -> VList(<<VStr("pentester"), VStr("lead")>>)])
Imported1 ==
    VDict([key \in {"id", "name", "roles"} |->
             CASE key = "id" -> VStr("i1")
               [] key = "name" -> VStr("Bob")
               [] OTHER -> VList(<<VStr("reviewer")>>)])

\* A member record of the project as data['pentesters'] holds it.
MemberRecord(id, name, username, roles) ==
    VDict([key \in {"id", "name", "username", "roles"} |->
             CASE key = "id" -> VStr(id)
               [] key = "name" -> VStr(name)
               [] key = "username" -> VStr(username)
               [] OTHER -> VList([i \in DOMAIN roles |-> VStr(roles[i])])])

MemberInputs ==
    {Member1,
     MemberRecord("u3", "Zed", "amy", <<"pentester">>),
     MemberRecord("u4", "Bea", "zoe", <<"pentester">>),
     MemberRecord("u5", "Cy", "cy", <<>>)}

DefaultData ==
    [report |-> VDict(EmptyDict), findings |-> <<>>, pentesters |-> <<Member1>>,
     imported |-> <<Imported1>>, override |-> TRUE]

DefaultOrder == <<"lead", "pentester", "reviewer">>

InitFormat ==
    /\ IdleRender
    /\ IdleTask
    /\ IdleMd
    /\ fpc = "input"
    /\ fdef = FindingFields
    /\ requireId = FALSE
    /\ iterOrder = DefaultOrder
    /\ fout = VNone
    /\ fdataOut = VNone
    /\ \/ /\ fvalue \in RawFindings
          /\ fdata = DefaultData
       \/ /\ fvalue = VDict(EmptyDict)
          /\ fdata \in [report : RawReports,
                        findings : SeqsUpTo(SomeFindings, MaxFindings),
                        pentesters : {<<Member1>>},
                        imported : {<<Imported1>>},
                        override : BOOLEAN]
       \/ /\ fvalue = VDict(EmptyDict)
          /\ fdata \in [report : {VDict(EmptyDict)},
                        findings : {<<>>},
                        pentesters : SeqsUpTo(MemberInputs, MaxMembers),
                        imported : {<<>>, <<Imported1>>},
                        override : {TRUE}]

\* format_template_field_object(value, definition, members, require_id)
FormatObjectCall ==
    /\ UNCHANGED notFormat
    /\ fpc = "input"
    /\ \E require_id \in BOOLEAN :
          /\ requireId' = require_id
          /\ fout' = format_template_field_object(
                         fvalue, fdef,
                         <<format_user(Member1), format_user(Imported1)>>, require_id)
    /\ fvalue' = RawAfterObject(fvalue, fout')
    /\ fpc' = "object"
    /\ UNCHANGED <<fdef, fdata, iterOrder, fdataOut>>

\* format_template_data(data, project_type, imported_members, override_finding_order)
FormatDataCall ==
    /\ UNCHANGED notFormat
    /\ fpc = "input"
    /\ \E perm \in Permutations(DOMAIN fdata.findings) :
          fdataOut' = format_template_data(fdata, perm)
    /\ fpc' = "data"
    /\ UNCHANGED <<fvalue, fdef, requireId, fdata, iterOrder, fout>>

NextFormat ==
    \/ FormatObjectCall
    \/ FormatDataCall

SpecFormat == InitFormat /\ [][NextFormat]_vars

\* Every field the definition declares is a key of the value, and so on in the
\* values of its object fields and the items of its lists of objects.
RECURSIVE HasDeclaredKeys(_, _)
HasDeclaredKeys(v, def) ==
    CASE def.type = "object" ->
            /\ v.k = "dict"
            /\ \A i \in DOMAIN def.fields :
                  /\ def.fields[i].id \in DOMAIN v.d
                  /\ HasDeclaredKeys(v.d[def.fields[i].id], def.fields[i])
      [] def.type = "list" ->
            /\ v.k = "list"
            /\ \A i \in DOMAIN v.l : HasDeclaredKeys(v.l[i], def.items[1])
      [] OTHER -> TRUE

\* C10: what format_template_field_object returns for a raw mapping, whatever
\* keys it lacks, has every declared key, in nested objects too; so have the
\* report and every finding that format_template_data returns.
C10_DefaultFill ==
    /\ fpc = "object" => HasDeclaredKeys(fout, FindingFields)
    /\ fpc = "data" =>
          /\ fdataOut.k = "dict"
          /\ HasDeclaredKeys(fdataOut.d["report"], ReportFields)
          /\ Len(fdataOut.d["findings"].l) = Len(fdata.findings)
          /\ \A i \in DOMAIN fdataOut.d["findings"].l :
                HasDeclaredKeys(fdataOut.d["findings"].l[i], FindingFields)

\* A raw mapping with none of the declared keys has been formatted.
C10_Witness ==
    /\ fpc = "object"
    /\ fvalue = VDict(EmptyDict)
    /\ DOMAIN fout.d = {"title", "severity", "affected"}
    /\ DOMAIN fout.d["affected"].d = {"host", "ports"}
    /\ fout.d["title"] = VStr("TODO")

\* ------------------------------------------------------ format_template_field

MaxRoles == 2   \* roles of a user record
MaxItems == 2   \* elements of a list value

\* The role names of the users, '' being an empty role.
RoleNames == {"lead", "pentester", "reviewer", "alpha", "zeta"}
RoleInputs == RoleNames \cup {""}

\* The orders in which a set may iterate its role names: the hash of a string
\* differs from process to process.
IterOrders ==
    {q \in [1..Cardinality(RoleNames) -> RoleNames] :
        \A i, j \in DOMAIN q : i /= j => q[i] /= q[j]}

\* The candidate members given to format_template_field.
Candidates == <<format_user(Member1), format_user(Imported1)>>

\* Values of enum, CWE and user fields: matching, unmatched, malformed, none.
ReferenceInputs ==
    {VNone, VStr(""), VStr("low"), VStr("bogus"), VStr("CWE-79"), VStr("CWE-1"),
     VStr("u1"), VStr("i1"), VStr("u2"), VStr("u9"), VStr("not-a-uuid")}

ReferenceFields == {FEnum("severity", SeverityChoices), FCwe("cwe"), FUser("author")}

\* A user record with the given roles.
UserRecord(roles) ==
    VDict([key \in {"id", "name", "username", "roles"} |->
             CASE key = "id" -> VStr("u1")
               [] key = "name" -> VStr("Ann")
               [] key = "username" -> VStr("ann")
               [] OTHER -> VList([i \in DOMAIN roles |-> VStr(roles[i])])])

\* Lists of enum values and lists of lists of strings.
ListFields ==
    {FList("severities", FEnum("severity", SeverityChoices)),
     FList("groups", FList("ports", FString("port", VNone)))}

ListInputs(def) ==
    IF def.items[1].type = "enum"
    THEN {VList(q) : q \in SeqsUpTo({VStr("low"), VStr("bogus"), VStr("")}, MaxItems)}
    ELSE {VList(q) : q \in SeqsUpTo({VList(<<>>), VList(<<VStr("80"), VStr("443")>>)},
                                    MaxItems)}

InitField ==
    /\ IdleRender
    /\ IdleTask
    /\ IdleMd
    /\ fpc = "input"
    /\ requireId = FALSE
    /\ fdata = VNone
    /\ fout = VNone
    /\ fdataOut = VNone
    /\ \/ /\ fdef \in ReferenceFields
          /\ fvalue \in ReferenceInputs
          /\ iterOrder = <<"lead", "pentester", "reviewer", "alpha", "zeta">>
       \/ /\ fdef = FUser("author")
          /\ fvalue \in {UserRecord(roles) : roles \in SeqsUpTo(RoleInputs, MaxRoles)}
          /\ iterOrder \in IterOrders
       \/ /\ fdef \in ListFields
          /\ fvalue \in ListInputs(fdef)
          /\ iterOrder = <<"lead", "pentester", "reviewer", "alpha", "zeta">>

\* format_template_field(value, definition, members)
FormatFieldCall ==
    /\ UNCHANGED notFormat
    /\ fpc = "input"
    /\ fout' = format_template_field(fvalue, fdef, Candidates)
    /\ fpc' = "field"
    /\ UNCHANGED <<fvalue, fdef, requireId, fdata, iterOrder, fdataOut>>

NextField == FormatFieldCall

SpecField == InitField /\ [][NextField]_vars

NaturalRank(r) ==
    CASE r = "alpha" -> 1
      [] r = "lead" -> 2
      [] r = "pentester" -> 3
      [] r = "reviewer" -> 4
      [] OTHER -> 5

\* C12: the roles of a formatted user record are the non-empty roles of the
\* record, each once, in the order lead, pentester, reviewer, any other role,
\* roles of the same priority in their natural order.
C12_RolesSorted ==
    (fpc = "field" /\ fdef.type = "user" /\ fvalue.k = "dict") =>
        /\ fout.k = "dict"
        /\ LET given == fvalue.d["roles"].l
               r == fout.d["roles"].l
           IN /\ {r[i].s : i \in DOMAIN r} = {given[i].s : i \in DOMAIN given} \ {""}
              /\ \A i, j \in DOMAIN r : i < j =>
                    \/ RolePriority(r[i].s) < RolePriority(r[j].s)
                    \/ /\ RolePriority(r[i].s) = RolePriority(r[j].s)
                       /\ NaturalRank(r[i].s) < NaturalRank(r[j].s)

\* The place of a member's display name in the natural order of strings.
NameRank(u) ==
    CASE Get(u, "name") = VStr("Ann") -> 1
      [] Get(u, "name") = VStr("Bea") -> 2
      [] Get(u, "name") = VStr("Bob") -> 3
      [] Get(u, "name") = VStr("Cy") -> 4
      [] OTHER -> 5

\* How often x occurs in the sequence q.
Count(q, x) == Cardinality({i \in DOMAIN q : q[i] = x})

\* C13: 'pentesters' of the tree format_template_data returns is the formatted
\* pool, pentesters and imported members, in the order of role priority, members
\* of the same priority in the order of their display names.
C13_PentestersSorted ==
    fpc = "data" =>
        /\ fdataOut.k = "dict"
        /\ LET pool == fdata.pentesters \o fdata.imported
               formatted == [i \in DOMAIN pool |->
                                format_template_field_user(pool[i], fdata.imported)]
               p == fdataOut.d["pentesters"].l
           IN /\ Len(p) = Len(pool)
              /\ \A i \in DOMAIN formatted : Count(p, formatted[i]) = Count(formatted, formatted[i])
              /\ \A i, j \in DOMAIN p : i < j =>
                    \/ MemberPriority(p[i]) < MemberPriority(p[j])
                    \/ /\ MemberPriority(p[i]) = MemberPriority(p[j])
                       /\ NameRank(p[i]) <= NameRank(p[j])

\* C14: for a list value format_template_field returns a list of the same
\* length, whose i-th element is the i-th element of the value formatted by the
\* item definition: an enum element as its choice or the empty choice, a list
\* of strings as itself.
C14_ListElementwise ==
    (fpc = "field" /\ fdef.type = "list") =>
        /\ fout.k = "list"
        /\ Len(fout.l) = Len(fvalue.l)
        /\ \A i \in DOMAIN fvalue.l :
              /\ fout.l[i] = format_template_field(fvalue.l[i], fdef.items[1], Candidates)
              /\ fdef.items[1].type = "enum" =>
                    fout.l[i] = VDict([key \in {"value", "label"} |->
                                   IF fvalue.l[i] /= VStr("low") THEN VStr("")
                                   ELSE IF key = "value" THEN VStr("low") ELSE VStr("Low")])
              /\ fdef.items[1].type = "list" => fout.l[i] = fvalue.l[i]

\* A list of two different enum values, one of them empty, has been formatted.
C14_Witness ==
    /\ fpc = "field"
    /\ fdef.type = "list"
    /\ fvalue = VList(<<VStr(""), VStr("low")>>)
    /\ Len(fout.l) = 2
    /\ fout.l[2].d["label"] = VStr("Low")

\* C15: with require_id, format_template_field_object gives the object a new id
\* only if it has no 'id' key, and keeps the id it has; without require_id it
\* adds none.  In the tree of format_template_data the report and every finding
\* have an 'id', and each finding that came with an id is there with that id.
C15_IdKeptOrSynthesized ==
    /\ fpc = "object" =>
          /\ fout.k = "dict"
          /\ "id" \in DOMAIN fvalue.d => fout.d["id"] = fvalue.d["id"]
          /\ ("id" \notin DOMAIN fvalue.d /\ requireId) => fout.d["id"] = FreshId
          /\ ("id" \notin DOMAIN fvalue.d /\ ~requireId) => "id" \notin DOMAIN fout.d
    /\ fpc = "data" =>
          /\ fdataOut.k = "dict"
          /\ "id" \in DOMAIN fdataOut.d["report"].d
          /\ LET given == fdata.findings
                 f == fdataOut.d["findings"].l
             IN /\ \A j \in DOMAIN f : "id" \in DOMAIN f[j].d
                /\ \A x \in {VStr("f1"), FreshId} :
                      Cardinality({j \in DOMAIN f : f[j].d["id"] = x})
                          = Cardinality({i \in DOMAIN given :
                                Get(given[i], "id") = IF x = FreshId THEN VNone ELSE x})

\* A finding with an id and one without have been given to format_template_data.
C15_Witness ==
    /\ fpc = "data"
    /\ \E i, j \in DOMAIN fdata.findings :
          /\ "id" \in DOMAIN fdata.findings[i].d
          /\ "id" \notin DOMAIN fdata.findings[j].d
    /\ \E i, j \in DOMAIN fdataOut.d["findings"].l :
          /\ fdataOut.d["findings"].l[i].d["id"] = VStr("f1")
          /\ fdataOut.d["findings"].l[j].d["id"] = FreshId

\* The keys of a raw object that the definition does not declare, with their values.
Undeclared(v, def) ==
    [key \in DOMAIN v.d \ {def.fields[i].id : i \in DOMAIN def.fields} |-> v.d[key]]

\* C18: format_template_field_object returns the keys the definition does not
\* declare with the values the raw mapping gave them, and leaves the raw
\* mapping as it was; each finding given to format_template_data is in the
\* tree with its undeclared keys and their values.
C18_UndeclaredKeysKept ==
    [][/\ fpc' = "object" =>
             /\ fvalue' = fvalue
             /\ fout'.k = "dict"
             /\ \A key \in DOMAIN Undeclared(fvalue, fdef) :
                   /\ key \in DOMAIN fout'.d
                   /\ fout'.d[key] = fvalue.d[key]
       /\ fpc' = "data" =>
             /\ fdataOut'.k = "dict"
             /\ Len(fdataOut'.d["findings"].l) = Len(fdata.findings)
             /\ \A i \in DOMAIN fdata.findings :
                   \E j \in DOMAIN fdataOut'.d["findings"].l :
                      LET given == Undeclared(fdata.findings[i], FindingFields)
                          out == fdataOut'.d["findings"].l[j].d
                      IN \A key \in DOMAIN given :
                            key \in DOMAIN out /\ out[key] = given[key]]_vars

\* A raw finding with the undeclared keys 'id' and 'order' and no declared key
\* has been formatted.
C18_Witness ==
    /\ fpc = "object"
    /\ DOMAIN fvalue.d = {"id", "order"}
    /\ fout.d["order"] = VStr("3")
    /\ fout.d["id"] = VStr("f1")
    /\ fout.d["title"] = VStr("TODO")

====
